---------------------------- MODULE Spec2Model ----------------------------
(***************************************************************************)
(* bottomless: replication of WAL pages to an S3-compatible bucket.        *)
(*                                                                         *)
(*   src/src/s3.rs       Replicator: write, commit, boot                   *)
(*   src/src/lib.rs      the WAL methods; xFrames calls write and commit   *)
(*   src/cli/src/main.rs bottomless-cli: list_generations, remove, ...     *)
(*                                                                         *)
(* Strings are sequences of one-character strings, so that formatting,     *)
(* parsing, prefixes and the bucket's lexicographic key order are          *)
(* computed and not assumed.  A page image is a record [len, img]: its     *)
(* length in bytes and a tag standing for its content.                     *)
(***************************************************************************)
EXTENDS Integers, Sequences, FiniteSets, TLC

\* ------------------------------------------------------------------ bounds

\* Entries a list_objects response holds at most (1000 in S3).
MaxKeys == 1

\* Entries the write buffer holds at most.
MaxBuffered == 2

\* ------------------------------------------------------------- constants

PAGE_SIZE == 4096

\* i32::MAX, the largest page number boot's parse::<i32>() accepts.
I32_MAX == 2147483647

\* Width of the {:012} field of an object key.
KeyWidth == 12

\* 253370761200, the seconds uuid_to_datetime subtracts from, as days and
\* seconds of the day: 253370761200 = 2932531 * 86400 + 82800.
FarFutureDay == 2932531

FarFutureSecOfDay == 82800

\* 999000000, the nanoseconds uuid_to_datetime subtracts from.
FarFutureNanos == 999000000

\* "38 is the length of the uuid part" of a prefix: '-', the 36
\* characters of the generation and '/'.
GenSuffixLen == 38

\* Seconds, and milliseconds, of a day of chrono's calendar.
SecondsPerDay == 86400

MillisPerDay == 86400000

\* Option<T>: None, or Some(x).
None == << >>

Some(x) == << x >>

Unwrap(o) == o[1]

\* ----------------------------------------------------------------- strings

\* The characters of keys, in ASCII order.
Alphabet ==
  << "-", ".", "/", "0", "1", "2", "3", "4", "5", "6", "7", "8", "9",
     "a", "b", "c", "d", "e", "f", "g", "m", "y", "z" >>

Ord(c) == CHOOSE i \in 1..Len(Alphabet) : Alphabet[i] = c

Min(a, b) == IF a <= b THEN a ELSE b

\* a < b in the byte order of the bucket's listing.
StrLess(a, b) ==
  \E i \in 1..(Min(Len(a), Len(b)) + 1) :
    /\ \A j \in 1..(i - 1) : a[j] = b[j]
    /\ \/ i > Len(a) /\ i <= Len(b)
       \/ i <= Len(a) /\ i <= Len(b) /\ Ord(a[i]) < Ord(b[i])

StartsWith(s, p) == Len(p) <= Len(s) /\ SubSeq(s, 1, Len(p)) = p

\* s[from..] with a 0-based start, as a Rust slice.
SliceFrom(s, from) == SubSeq(s, from + 1, Len(s))

\* s[from..to] with 0-based bounds, as a Rust slice.
Slice(s, from, to) == SubSeq(s, from + 1, to)

\* The set S as a sequence in ascending byte order: the i-th string is the
\* one with i - 1 strings of S before it.
SortStrs(S) ==
  [ i \in 1..Cardinality(S) |->
      CHOOSE x \in S : Cardinality({ y \in S : StrLess(y, x) }) = i - 1 ]

Digits == << "0", "1", "2", "3", "4", "5", "6", "7", "8", "9" >>

IsDigit(c) == \E d \in 1..10 : Digits[d] = c

DigitVal(c) == (CHOOSE d \in 1..10 : Digits[d] = c) - 1

\* The decimal digits of n >= 0.
RECURSIVE Decimal(_)
Decimal(n) ==
  IF n < 10 THEN << Digits[n + 1] >>
  ELSE Decimal(n \div 10) \o << Digits[(n % 10) + 1] >>

RECURSIVE Zeros(_)
Zeros(k) == IF k <= 0 THEN << >> ELSE << "0" >> \o Zeros(k - 1)

\* format!("{:012}", n) for n >= 0: zero-padded on the left to 12
\* characters, longer numbers are not cut.
ZeroPad(n, width) == Zeros(width - Len(Decimal(n))) \o Decimal(n)

\* str::parse::<i32>() of a string of digits: None for an empty string, a
\* character that is no digit, or a value above i32::MAX.
RECURSIVE ParseDigits(_, _)
ParseDigits(s, acc) ==
  IF s = << >> THEN Some(acc)
  ELSE IF ~IsDigit(s[1]) THEN None
  ELSE LET d == DigitVal(s[1])
       IN  IF acc > (I32_MAX - d) \div 10 THEN None
           ELSE ParseDigits(Tail(s), acc * 10 + d)

ParseI32(s) == IF s = << >> THEN None ELSE ParseDigits(s, 0)

\* str::rfind(c): the 0-based index of the last c of s, or None.
RFind(s, c) ==
  IF \E i \in 1..Len(s) : s[i] = c
  THEN Some((CHOOSE i \in 1..Len(s) :
                s[i] = c /\ \A j \in (i + 1)..Len(s) : s[j] # c) - 1)
  ELSE None

\* ---------------------------------------------------------- the bucket

\* The bucket maps each key to the body of its object.
EmptyStore == [k \in {} |-> None]

\* put_object: the object is created, or replaced when the key exists.
PutObject(s, key, body) ==
  [k \in DOMAIN s \cup {key} |-> IF k = key THEN body ELSE s[k]]

\* delete_object
DeleteObject(s, key) == [k \in DOMAIN s \ {key} |-> s[k]]

\* 1-based position of the first delimiter of key after its first `from`
\* characters, or 0.
DelimiterAt(key, from, delimiter) ==
  IF \E i \in (from + 1)..Len(key) : key[i] = delimiter
  THEN CHOOSE i \in (from + 1)..Len(key) :
         key[i] = delimiter /\ \A j \in (from + 1)..(i - 1) : key[j] # delimiter
  ELSE 0

\* The name a key is listed under: the key itself, or with a delimiter
\* the common prefix it rolls up into.
ListedName(key, prefix, delimiter) ==
  IF delimiter = None THEN key
  ELSE LET at == DelimiterAt(key, Len(prefix), Unwrap(delimiter))
       IN  IF at = 0 THEN key ELSE SubSeq(key, 1, at)

IsCommonPrefix(name, prefix, delimiter) ==
  /\ delimiter # None
  /\ DelimiterAt(name, Len(prefix), Unwrap(delimiter)) = Len(name)

\* list_objects().bucket(..).prefix(prefix).set_delimiter(delimiter)
\* .marker(marker).max_keys(max_keys): the names under the prefix that
\* follow the marker, in ascending byte order, max_keys of them at most;
\* next_marker is the last name of the response when names remain after it.
ListObjectsUpTo(s, prefix, delimiter, marker, max_keys) ==
  LET names  == { ListedName(k, prefix, delimiter) :
                    k \in { x \in DOMAIN s : StartsWith(x, prefix) } }
      after  == { n \in names : marker = None \/ StrLess(Unwrap(marker), n) }
      sorted == SortStrs(after)
      page   == SubSeq(sorted, 1, Min(max_keys, Len(sorted)))
      IsPfx(n) == IsCommonPrefix(n, prefix, delimiter)
      IsKey(n) == ~IsCommonPrefix(n, prefix, delimiter)
  IN  [ contents        |-> SelectSeq(page, IsKey),
        common_prefixes |-> SelectSeq(page, IsPfx),
        next_marker     |-> IF Len(sorted) > Len(page)
                            THEN Some(page[Len(page)]) ELSE None ]

\* list_objects without max_keys: the store answers MaxKeys names at most.
ListObjects(s, prefix, delimiter, marker) ==
  ListObjectsUpTo(s, prefix, delimiter, marker, MaxKeys)

\* ListObjectsOutput::contents(): None when the response holds no object.
Contents(response) ==
  IF response.contents = << >> THEN None ELSE Some(response.contents)

\* ListObjectsOutput::common_prefixes(): None when the response holds none.
CommonPrefixes(response) ==
  IF response.common_prefixes = << >> THEN None
  ELSE Some(response.common_prefixes)

\* ListObjectsOutput::next_marker().  S3 fills NextMarker only for a
\* request that names a delimiter; for a request without one a truncated
\* response carries it or not, as the store behind the endpoint decides.
NextMarker(response, delimiter) ==
  IF delimiter = None THEN { None, response.next_marker }
  ELSE { response.next_marker }

\* -------------------------------------------------------- the replicator

\* Replicator.db_name of the session
db_name == << "d", "b" >>

\* Page numbers the host writes: two neighbours and a page past the
\* first 4096.
Pgnos == { 1, 2, 4097 }

\* Page contents.
Imgs == { "A", "B" }

\* The page_size a caller of xFrames may pass: PAGE_SIZE, or the smallest
\* page size of the host.
PageSizes == { PAGE_SIZE, 512 }

\* What the underlying xFrames may return.
OrigRcs == { "SQLITE_OK", "SQLITE_IOERR_WRITE" }

\* How many page headers one xFrames call carries.
HdrCounts == { 0, 1 }

\* The page headers of one xFrames call.
Hdrs == UNION { [1..n -> [pgno : Pgnos, img : Imgs]] : n \in HdrCounts }

VARIABLES
  store,         \* the bucket
  write_buffer,  \* Replicator.write_buffer, in its iteration order
  pc,            \* "idle", "commit" inside commit's loop, "returned"
  idx,           \* position of commit's loop in write_buffer
  commit_call,   \* the commit call in progress, or the last one
  xframes_ret,   \* the xFrames call in progress, or the last one
  written,       \* page -> the last image written since the last Ok commit
  first_store,   \* the bucket when the buffer was first tried
  boot_result,   \* what the last boot returned
  txn,           \* the pages written by the transaction that is open
  ls,            \* the list_generations call in progress, or the last one
  rm,            \* the remove call in progress, or the last one
  rmm,           \* the remove_many call in progress, or the last one
  out,           \* what the last detect_db or list_generation returned
  clock          \* the generations minted last and before

\* The replicator of the session and what the host saw of it.
replicator_vars ==
  << write_buffer, pc, idx, commit_call, xframes_ret, written, first_store,
     boot_result, txn >>

session_vars ==
  << store, write_buffer, pc, idx, commit_call, xframes_ret, written,
     first_store, boot_result, txn >>

\* What the other commands of bottomless-cli and the generation clock keep.
cmd_vars == << rm, rmm, out, clock >>

NoCommit ==
  [ buf |-> << >>, store |-> EmptyStore, uploaded |-> << >>,
    result |-> "none", stopped_at |-> 0 ]

NoCall ==
  [ is_commit |-> 0, rc |-> "none", orig_called |-> FALSE, overwrote |-> FALSE ]

\* format!("{}-{:012}", self.db_name, offset / Self::PAGE_SIZE as i64)
Key(offset) == db_name \o << "-" >> \o ZeroPad(offset \div PAGE_SIZE, KeyWidth)

\* Mutant: the length of a page is not checked.
PageFits_Unchecked(data) == TRUE

\* data.len() != Self::PAGE_SIZE is an error
PageFits(data) == data.len = PAGE_SIZE

InsertAt(buf, i, e) == SubSeq(buf, 1, i - 1) \o << e >> \o SubSeq(buf, i, Len(buf))

\* Mutant: a page that is already buffered keeps its first image.
write_KeepsFirst(buf, offset, data) ==
  IF \E i \in 1..Len(buf) : buf[i].offset = offset
  THEN { buf }
  ELSE { InsertAt(buf, i, [offset |-> offset, data |-> data]) :
           i \in 1..(Len(buf) + 1) }

\* Replicator::write: HashMap::insert.  An existing entry is replaced where
\* it is; a new entry lands anywhere in the map's iteration order.
write(buf, offset, data) ==
  IF \E i \in 1..Len(buf) : buf[i].offset = offset
  THEN { [ i \in 1..Len(buf) |->
             IF buf[i].offset = offset
             THEN [offset |-> offset, data |-> data] ELSE buf[i] ] }
  ELSE { InsertAt(buf, i, [offset |-> offset, data |-> data]) :
           i \in 1..(Len(buf) + 1) }

\* The data slice PageHdrIter yields for a header: page_size bytes.
PageData(hdr, page_size) == [len |-> page_size, img |-> hdr.img]

\* xFrames' loop: replicator.write(pgno, data) for each page header.
RECURSIVE WriteAll(_, _, _)
WriteAll(buf, hdrs, page_size) ==
  IF hdrs = << >> THEN { buf }
  ELSE UNION { WriteAll(b, Tail(hdrs), page_size) :
                 b \in write(buf, hdrs[1].pgno, PageData(hdrs[1], page_size)) }

\* The images written so far, page by page, after the pages of hdrs.
RECURSIVE Record(_, _, _)
Record(w, hdrs, page_size) ==
  IF hdrs = << >> THEN w
  ELSE Record([ p \in DOMAIN w \cup {hdrs[1].pgno} |->
                  IF p = hdrs[1].pgno THEN PageData(hdrs[1], page_size)
                  ELSE w[p] ],
              Tail(hdrs), page_size)

\* The bucket the first commit call on the present buffer content found.
FirstStore(buf, is_commit) ==
  IF buf # write_buffer \/ buf = << >> \/ first_store = None
  THEN IF is_commit # 0 THEN Some(store) ELSE None
  ELSE first_store

\* Whether a page of hdrs is written over an image of the buffer.
Overwrites(hdrs) ==
  \E i \in 1..Len(hdrs) :
    \/ \E j \in 1..Len(write_buffer) : write_buffer[j].offset = hdrs[i].pgno
    \/ \E j \in 1..(i - 1) : hdrs[j].pgno = hdrs[i].pgno

\* xFrames, up to the call of commit: the pages are buffered; without
\* is_commit the call is forwarded to the underlying xFrames at once.
xFrames(page_size, hdrs, is_commit) ==
  /\ pc = "idle"
  /\ \E buf \in WriteAll(write_buffer, hdrs, page_size) :
       /\ Len(buf) <= MaxBuffered
       /\ write_buffer' = buf
       /\ first_store' = FirstStore(buf, is_commit)
       /\ IF is_commit # 0
          THEN /\ pc' = "commit"
               /\ idx' = 1
               /\ commit_call' = [ buf |-> buf, store |-> store,
                                   uploaded |-> << >>, result |-> "running",
                                   stopped_at |-> 0 ]
               /\ xframes_ret' = [ is_commit |-> is_commit, rc |-> "none",
                                   orig_called |-> FALSE,
                                   overwrote |-> Overwrites(hdrs) ]
          ELSE /\ pc' = "returned"
               /\ UNCHANGED idx
               /\ commit_call' = NoCommit
               /\ \E rc \in OrigRcs :
                    xframes_ret' = [ is_commit |-> is_commit, rc |-> rc,
                                     orig_called |-> TRUE,
                                     overwrote |-> Overwrites(hdrs) ]
  /\ written' = Record(written, hdrs, page_size)
  /\ txn' = txn \cup { hdrs[i].pgno : i \in 1..Len(hdrs) }
  /\ UNCHANGED << store, boot_result, ls, cmd_vars >>

\* Mutant: the buffer is cleared on the error path too.
CommitReturnsErr_ClearsBuffer(kind) ==
  /\ pc' = "returned"
  /\ commit_call' = [commit_call EXCEPT !.result = kind, !.stopped_at = idx]
  /\ xframes_ret' = [xframes_ret EXCEPT !.rc = "SQLITE_IOERR_WRITE"]
  /\ write_buffer' = << >>
  /\ UNCHANGED << idx, store >>

\* Mutant: xFrames logs the error and forwards the call all the same.
CommitReturnsErr_Forwards(kind) ==
  /\ pc' = "returned"
  /\ commit_call' = [commit_call EXCEPT !.result = kind, !.stopped_at = idx]
  /\ \E rc \in OrigRcs :
       xframes_ret' = [xframes_ret EXCEPT !.rc = rc, !.orig_called = TRUE]
  /\ UNCHANGED << write_buffer, idx, store >>

\* commit returns Err(kind): the buffer is left as it is, and xFrames
\* returns SQLITE_IOERR_WRITE without calling the underlying xFrames.
CommitReturnsErr(kind) ==
  /\ pc' = "returned"
  /\ commit_call' = [commit_call EXCEPT !.result = kind, !.stopped_at = idx]
  /\ xframes_ret' = [xframes_ret EXCEPT !.rc = "SQLITE_IOERR_WRITE"]
  /\ UNCHANGED << write_buffer, idx, store >>

\* commit's loop meets a page that is not PAGE_SIZE long.
CommitSizeMismatch ==
  /\ pc = "commit"
  /\ idx <= Len(write_buffer)
  /\ ~PageFits(write_buffer[idx].data)
  /\ CommitReturnsErr("SizeMismatch")
  /\ UNCHANGED << written, txn, first_store, boot_result, ls, cmd_vars >>

\* commit's loop uploads a page: put_object().key(key).body(data) is Ok.
CommitPut ==
  /\ pc = "commit"
  /\ idx <= Len(write_buffer)
  /\ PageFits(write_buffer[idx].data)
  /\ LET e == write_buffer[idx]
     IN  /\ store' = PutObject(store, Key(e.offset), e.data)
         /\ commit_call' =
              [commit_call EXCEPT
                 !.uploaded = @ \o << [offset |-> e.offset, key |-> Key(e.offset)] >>]
  /\ idx' = idx + 1
  /\ UNCHANGED << write_buffer, pc, xframes_ret, written, txn, first_store,
                  boot_result, ls, cmd_vars >>

\* Mutant: the failed upload is skipped and the loop goes on.
CommitPutFails_SkipsPage ==
  /\ pc = "commit"
  /\ idx <= Len(write_buffer)
  /\ PageFits(write_buffer[idx].data)
  /\ idx' = idx + 1
  /\ UNCHANGED << store, write_buffer, pc, commit_call, xframes_ret, written, txn,
                  first_store, boot_result, ls, cmd_vars >>

\* Mutant: the error is seen only after the next page was sent as well.
CommitPutFails_SendsNext ==
  /\ pc = "commit"
  /\ idx <= Len(write_buffer)
  /\ PageFits(write_buffer[idx].data)
  /\ pc' = "returned"
  /\ LET more == idx + 1 <= Len(write_buffer)
         e    == write_buffer[idx + 1]
     IN  /\ store' = IF more THEN PutObject(store, Key(e.offset), e.data)
                      ELSE store
         /\ commit_call' =
              [commit_call EXCEPT
                 !.result = "Transport", !.stopped_at = idx,
                 !.uploaded = IF more
                              THEN @ \o << [offset |-> e.offset,
                                            key |-> Key(e.offset)] >>
                              ELSE @]
  /\ xframes_ret' = [xframes_ret EXCEPT !.rc = "SQLITE_IOERR_WRITE"]
  /\ UNCHANGED << write_buffer, idx, written, txn, first_store, boot_result, ls, cmd_vars >>

\* put_object fails: `.await?` leaves the loop.
CommitPutFails ==
  /\ pc = "commit"
  /\ idx <= Len(write_buffer)
  /\ PageFits(write_buffer[idx].data)
  /\ CommitReturnsErr("Transport")
  /\ UNCHANGED << written, txn, first_store, boot_result, ls, cmd_vars >>

\* The loop is over: the buffer is cleared, commit returns Ok and xFrames
\* returns what the underlying xFrames returns.
CommitOk ==
  /\ pc = "commit"
  /\ idx > Len(write_buffer)
  /\ write_buffer' = << >>
  /\ pc' = "returned"
  /\ commit_call' = [commit_call EXCEPT !.result = "Ok", !.stopped_at = idx]
  /\ \E rc \in OrigRcs :
       xframes_ret' = [xframes_ret EXCEPT !.rc = rc, !.orig_called = TRUE]
  /\ written' = EmptyStore
  /\ UNCHANGED << idx, store, first_store, boot_result, txn, ls, cmd_vars >>

\* boot's match on the key: the page number follows the last '-'.
BootPgno(key) ==
  LET at == RFind(key, "-")
  IN  IF at = None THEN None ELSE ParseI32(SliceFrom(key, Unwrap(at) + 1))

\* boot's loop over the listed objects: a page per key that parses, keys
\* that do not parse are logged and skipped.
RECURSIVE BootPages(_, _)
BootPages(s, keys) ==
  IF keys = << >> THEN << >>
  ELSE LET pgno == BootPgno(keys[1])
       IN  (IF pgno = None THEN << >>
            ELSE << << Unwrap(pgno), s[keys[1]] >> >>)
           \o BootPages(s, Tail(keys))

\* The objects boot visits: those of its one list_objects call.
BootListing(s) ==
  LET objs == Contents(ListObjects(s, << >>, None, None))
  IN  IF objs = None THEN << >> ELSE Unwrap(objs)

\* Replicator::boot: Ok(pages), or Err when list_objects or a get_object
\* fails.
boot ==
  /\ pc \in { "idle", "returned" }
  /\ pc' = "returned"
  /\ \/ boot_result' = Some([ ok |-> TRUE, visited |-> BootListing(store),
                              pages |-> BootPages(store, BootListing(store)) ])
     \/ boot_result' = Some([ ok |-> FALSE, visited |-> << >>, pages |-> << >> ])
  /\ UNCHANGED << store, write_buffer, idx, commit_call, xframes_ret,
                  written, txn, first_store, ls, cmd_vars >>

\* xUndo and xSavepointUndo: the host rolls its transaction back.  Both
\* only forward the call to the underlying methods; the replicator is not
\* told, and its buffer stays as it is.
xUndo ==
  /\ pc = "idle"
  /\ txn' = {}
  /\ UNCHANGED << store, write_buffer, pc, idx, commit_call, xframes_ret,
                  written, first_store, boot_result, ls, cmd_vars >>

\* The host has the result of its call and goes on: what the call returned
\* is no longer looked at.
HostResumes ==
  /\ pc = "returned"
  /\ pc' = "idle"
  /\ commit_call' = NoCommit
  /\ xframes_ret' = NoCall
  /\ boot_result' = None
  /\ first_store' = IF write_buffer = << >> THEN None ELSE first_store
  /\ idx' = 1
  /\ txn' = IF commit_call.result = "Ok" THEN {} ELSE txn
  /\ UNCHANGED << store, write_buffer, written, ls, cmd_vars >>


\* ------------------------------------------------------ generation ids

HexDigits ==
  << "0", "1", "2", "3", "4", "5", "6", "7", "8", "9",
     "a", "b", "c", "d", "e", "f" >>

IsHex(c) == \E d \in 1..16 : HexDigits[d] = c

HexVal(c) == (CHOOSE d \in 1..16 : HexDigits[d] = c) - 1

\* Where the hyphens of the 36 characters of a hyphenated uuid are.
HyphenAt == { 9, 14, 19, 24 }

\* uuid::Uuid::try_parse of the hyphenated form: the 32 hexadecimal digits
\* of the uuid, or None.
TryParseUuid(text) ==
  IF /\ Len(text) = 36
     /\ \A i \in 1..36 : IF i \in HyphenAt THEN text[i] = "-" ELSE IsHex(text[i])
  THEN Some([ i \in 1..32 |->
                HexVal(SelectSeq(text, LAMBDA c : c # "-")[i]) ])
  ELSE None

\* The first n hexadecimal digits of a uuid as a number of milliseconds,
\* held as whole days and milliseconds of the day (48 bits do not fit an
\* integer of the checker).  MillisFrom reads the digits i..n after the
\* number (day, ms) of the digits before them.
RECURSIVE MillisFrom(_, _, _, _, _)
MillisFrom(hex, i, n, day, ms) ==
  IF i > n THEN [day |-> day, ms |-> ms]
  ELSE MillisFrom(hex, i + 1, n,
                  day * 16 + (ms * 16 + hex[i]) \div MillisPerDay,
                  (ms * 16 + hex[i]) % MillisPerDay)

Millis(hex, n) == MillisFrom(hex, 1, n, 0, 0)

\* Uuid::get_timestamp().map(|ts| ts.to_unix()): (seconds, nanos) of a
\* version 7 uuid, whose first 48 bits are Unix milliseconds; None for the
\* versions that carry no timestamp (no id of version 1 or 6 is decoded
\* here).  The seconds are held as days and seconds of the day.
GetTimestamp(hex) ==
  IF hex[13] = 7
  THEN LET m == Millis(hex, 12)
       IN  Some([ day   |-> m.day,
                  sod   |-> m.ms \div 1000,
                  nanos |-> (m.ms % 1000) * 1000000 ])
  ELSE None

\* uuid_to_datetime: (253370761200 - seconds, 999000000 - nanos) as a
\* NaiveDateTime.  The subtraction of the seconds is a u64 one: past
\* 253370761200 it panics in a build with overflow checks, and without
\* them it wraps, `as i64` then giving back the negative difference.  The
\* nanoseconds of a version 7 uuid are at most 999000000.  Each outcome is
\* [panic, day, sod, nanos]; day is the NaiveDate of the datetime, in days
\* since 1970-01-01.
uuid_to_datetime(hex) ==
  UNION {
    LET ts    == IF got = None THEN [day |-> 0, sod |-> 0, nanos |-> 0]
                 ELSE Unwrap(got)
        sod   == FarFutureSecOfDay - ts.sod
        day   == IF sod < 0 THEN FarFutureDay - ts.day - 1
                 ELSE FarFutureDay - ts.day
        value == [ panic |-> FALSE, day |-> day,
                   sod   |-> IF sod < 0 THEN sod + SecondsPerDay ELSE sod,
                   nanos |-> FarFutureNanos - ts.nanos ]
    IN  IF day < 0
        THEN { value, [panic |-> TRUE, day |-> 0, sod |-> 0, nanos |-> 0] }
        ELSE { value } :
      got \in { GetTimestamp(hex) } }

\* ---------------------------------------------------- generation clock
\*
\* The replicator that mints the generations is not among the sources; the
\* minting below is the transform of the specification, encoded =
\* FAR_FUTURE - raw_time, with the constants and the integer widths of
\* uuid_to_datetime, which reverses "the same subtraction".

\* 2^32 nanoseconds = 4294 ms + 967296 ns.
Pow32Millis == 4294

Pow32Nanos == 967296

NanosPerMilli == 1000000

\* The last n hexadecimal digits of day * MillisPerDay + ms.
RECURSIVE MillisHex(_, _, _)
MillisHex(day, ms, n) ==
  IF n = 0 THEN << >>
  ELSE LET r == (day % 16) * MillisPerDay + ms
       IN  MillisHex(day \div 16, r \div 16, n - 1) \o << r % 16 >>

\* A version 7 uuid of the Unix milliseconds m: 48 bits of time, the
\* version, and bits that carry no time.
NewV7(m) ==
  MillisHex(m.day, m.ms, 12) \o << 7 >>
    \o [ i \in 1..19 |-> IF i = 4 THEN 8 ELSE 0 ]

\* The Unix milliseconds of (seconds, nanos), the seconds given as days and
\* seconds of the day and the milliseconds of the nanoseconds as nanos_ms.
UnixMillis(day, sod, nanos_ms) ==
  LET ms == sod * 1000 + nanos_ms
  IN  [ day |-> day + ms \div MillisPerDay, ms |-> ms % MillisPerDay ]

\* The outcomes of minting a generation at the time t = (day, sod, nanos):
\* a version 7 uuid of (253370761200 - seconds, 999000000 - nanos).  The
\* subtraction of the nanoseconds is a u32 one: past 999000000 it panics in
\* a build with overflow checks, and without them it wraps to 2^32 minus
\* the difference.
mint_at(t) ==
  LET sod   == FarFutureSecOfDay - t.sod
      day   == IF sod < 0 THEN FarFutureDay - t.day - 1
               ELSE FarFutureDay - t.day
      secs  == IF sod < 0 THEN sod + SecondsPerDay ELSE sod
      nanos == FarFutureNanos - t.nanos
      Minted(nanos_ms) ==
        [ at |-> t, panic |-> FALSE,
          id |-> Some(NewV7(UnixMillis(day, secs, nanos_ms))) ]
  IN  IF nanos >= 0 THEN { Minted(nanos \div NanosPerMilli) }
      ELSE { [ at |-> t, panic |-> TRUE, id |-> None ],
             Minted(Pow32Millis + (Pow32Nanos + nanos) \div NanosPerMilli) }

\* decode(id): what uuid_to_datetime makes of a minted generation.
decode(minted) ==
  IF minted.id = None THEN {} ELSE uuid_to_datetime(Unwrap(minted.id))

\* Creation times: 2023-06-01, at and next to midnight, with nanoseconds
\* on both sides of 999000000.
ClockDays == { 19509 }

ClockSeconds == { 0, 1, 86399 }

ClockNanos == { 0, 500000, 1000000, 999000000, 999500000, 999999999 }

CreationTimes ==
  { [ day |-> d, sod |-> sec, nanos |-> n ] :
      d \in ClockDays, sec \in ClockSeconds, n \in ClockNanos }

\* A session opens a database at the time t and mints its generation; the
\* clock keeps the last two for the comparison.
mint(t) ==
  /\ \E minted \in mint_at(t) :
       clock' = [ last   |-> Some(minted @@ [ decoded |-> decode(minted) ]),
                  before |-> clock.last ]
  /\ UNCHANGED << session_vars, ls, rm, rmm, out >>

\* ------------------------------------------------------- bottomless-cli

\* Mutant: a generation dated on older_than is left out.
Excluded_OlderExclusive(date, older_than, newer_than) ==
  \/ newer_than # None /\ date < Unwrap(newer_than)
  \/ older_than # None /\ date >= Unwrap(older_than)

\* list_generations' date filters: the generation is skipped when its
\* date is before newer_than or after older_than; a bound that is not
\* given is NaiveDate::MIN or NaiveDate::MAX.
Excluded(date, older_than, newer_than) ==
  \/ newer_than # None /\ date < Unwrap(newer_than)
  \/ older_than # None /\ date > Unwrap(older_than)

cli_vars == << ls >>

NoLs ==
  [ pc |-> "idle", limit_arg |-> None, older_than |-> None,
    newer_than |-> None, next_marker |-> None, limit |-> 0,
    visited |-> << >>, emitted |-> << >>, result |-> "none" ]

\* list_generations' loop over the prefixes of one response, from the
\* state run of the call: every prefix is visited, parsed, dated, filtered
\* and printed, and counted against limit.  The results are the states
\* the builds can leave: result is "none" when the loop ran to its end.
RECURSIVE ListGenerationsPrefixes(_, _)
ListGenerationsPrefixes(run, prefixes) ==
  IF prefixes = << >> \/ run.result # "none" THEN { run }
  ELSE
    LET prefix == prefixes[1]
        seen   == [run EXCEPT !.visited = @ \o << prefix >>]
        from   == Len(db_name) + 1
        to     == Len(prefix) - 1
        uuid   == IF from <= to THEN TryParseUuid(Slice(prefix, from, to))
                  ELSE None
        Counted(r) ==
          IF r.limit = 0
          THEN { [r EXCEPT !.result = "panic"],
                 [r EXCEPT !.limit = -1] }
          ELSE { [r EXCEPT !.limit = @ - 1,
                           !.result = IF r.limit = 1 THEN "Ok" ELSE "none"] }
        Dated(dt) ==
          IF dt.panic THEN { [seen EXCEPT !.result = "panic"] }
          ELSE IF Excluded(dt.day, run.older_than, run.newer_than)
          THEN { seen }
          ELSE Counted([seen EXCEPT
                          !.emitted = @ \o << Slice(prefix, from, to) >>])
    IN  IF from > to THEN { [seen EXCEPT !.result = "panic"] }
        ELSE IF uuid = None THEN { [seen EXCEPT !.result = "Malformed"] }
        ELSE UNION { UNION { ListGenerationsPrefixes(r, Tail(prefixes)) : r \in Dated(dt) } :
                       dt \in uuid_to_datetime(Unwrap(uuid)) }

\* list_generations is called: limit.unwrap_or(u64::MAX), u64::MAX being
\* -1 in the two's complement reading of the 64 bits.
list_generations(limit, older_than, newer_than) ==
  /\ ls.pc \in { "idle", "done" }
  /\ ls' = [ pc |-> "listing", limit_arg |-> limit, older_than |-> older_than,
             newer_than |-> newer_than, next_marker |-> None,
             limit |-> IF limit = None THEN -1 ELSE Unwrap(limit),
             visited |-> << >>, emitted |-> << >>, result |-> "none" ]
  /\ UNCHANGED << session_vars, cmd_vars >>

\* One turn of list_generations' loop: a list_objects call with the
\* delimiter "/" and the marker of the turn before, and the prefixes of its
\* response.
ListGenerationsPage ==
  /\ ls.pc = "listing"
  /\ \E response \in { ListObjects(store, db_name, Some("/"),
                                    ls.next_marker) } :
         IF CommonPrefixes(response) = None
         THEN ls' = [ls EXCEPT !.pc = "done", !.result = "Ok"]
         ELSE \E run \in ListGenerationsPrefixes(
                            ls, Unwrap(CommonPrefixes(response))) :
                IF run.result # "none"
                THEN ls' = [run EXCEPT !.pc = "done"]
                ELSE IF response.next_marker = None
                THEN ls' = [run EXCEPT !.pc = "done", !.result = "Ok"]
                ELSE ls' = [run EXCEPT !.next_marker = response.next_marker]
  /\ UNCHANGED << session_vars, cmd_vars >>

\* list_objects fails: `.await?` returns the error.
ListGenerationsFails ==
  /\ ls.pc = "listing"
  /\ ls' = [ls EXCEPT !.pc = "done", !.result = "Transport"]
  /\ UNCHANGED << session_vars, cmd_vars >>

\* Generations of the database, dated 2023-01-01, 2023-06-01 and
\* 2023-12-01 by uuid_to_datetime.
Gen_2023_01_01 ==
  << "e", "4", "e", "b", "0", "c", "e", "8", "-", "1", "c", "9", "5", "-",
     "7", "a", "3", "c", "-", "8", "f", "2", "1", "-",
     "0", "2", "4", "2", "a", "c", "1", "2", "0", "0", "0", "2" >>

Gen_2023_06_01 ==
  << "e", "4", "e", "8", "0", "5", "f", "6", "-", "b", "9", "6", "7", "-",
     "7", "b", "1", "1", "-", "9", "c", "4", "e", "-",
     "0", "2", "4", "2", "a", "c", "1", "2", "0", "0", "0", "3" >>

Gen_2023_12_01 ==
  << "e", "4", "e", "4", "5", "2", "6", "4", "-", "9", "9", "6", "8", "-",
     "7", "c", "0", "5", "-", "a", "1", "d", "2", "-",
     "0", "2", "4", "2", "a", "c", "1", "2", "0", "0", "0", "4" >>

Generations == { Gen_2023_01_01, Gen_2023_06_01, Gen_2023_12_01 }

\* <db_name>-<generation>/<name>
GenKey(generation, name) ==
  db_name \o << "-" >> \o generation \o << "/" >> \o name

\* format!("{}-{}/", &self.db_name, generation), the prefix of the objects
\* of a generation.
GenPrefix(generation) == db_name \o << "-" >> \o generation \o << "/" >>

SnapshotName == << "d", "b", ".", "g", "z" >>

\* The objects a generation holds in the buckets of the model.
GenObjects(generation) ==
  IF generation = Gen_2023_01_01
  THEN { GenKey(generation, ZeroPad(1, KeyWidth)) }
  ELSE IF generation = Gen_2023_06_01
  THEN { GenKey(generation, ZeroPad(1, KeyWidth)),
         GenKey(generation, SnapshotName) }
  ELSE { GenKey(generation, ZeroPad(1, KeyWidth)),
         GenKey(generation, ZeroPad(2, KeyWidth)) }

\* The bucket holding the objects of the generations gens.
GenStore(gens) ==
  [ k \in UNION { GenObjects(g) : g \in gens } |->
      [len |-> PAGE_SIZE, img |-> "A"] ]

\* Objects a bucket may hold beside the generations of the database.
\* db-0/0: under the name of the database, and no generation.
Stray_db0 == << "d", "b", "-", "0", "/", "0" >>

\* -a/0 and a/0: short keys of nobody.
Stray_dash == << "-", "a", "/", "0" >>

Stray_a == << "a", "/", "0" >>

\* 0.<generation>/0: a generation after a name, with no '-' between them.
Stray_dot == << "0", "." >> \o Gen_2023_01_01 \o << "/", "0" >>

\* mydb-6f9c2c66-1f3a-11ee-9c4e-0242ac120002/000000000001: a page of the
\* database mydb.
Stray_mydb ==
  << "m", "y", "d", "b", "-",
     "6", "f", "9", "c", "2", "c", "6", "6", "-", "1", "f", "3", "a", "-",
     "1", "1", "e", "e", "-", "9", "c", "4", "e", "-",
     "0", "2", "4", "2", "a", "c", "1", "2", "0", "0", "0", "2", "/" >>
  \o ZeroPad(1, KeyWidth)

\* mydb-000000000002: page 2 of the database mydb, under the key commit
\* gives it.
Stray_page == << "m", "y", "d", "b", "-" >> \o ZeroPad(2, KeyWidth)

StrayKeys ==
  { {}, { Stray_db0 }, { Stray_dash }, { Stray_a }, { Stray_dot },
    { Stray_mydb }, { Stray_page } }

\* The bucket s with objects under keys as well.
WithKeys(s, keys) ==
  [ k \in DOMAIN s \cup keys |->
      IF k \in DOMAIN s THEN s[k] ELSE [len |-> PAGE_SIZE, img |-> "B"] ]

\* Dates given as older_than and newer_than, in days since 1970-01-01:
\* 2023-02-01, 2023-06-01, 2023-07-01.
FilterDates == { 19389, 19509, 19539 }

Limits == { None, Some(0), Some(1), Some(2) }

\* ------------------------------------------------- removing generations

NoRm ==
  [ pc |-> "idle", generation |-> << >>, caller |-> "none",
    found |-> EmptyStore, next_marker |-> None, objs |-> << >>,
    response_marker |-> None, deleted |-> << >>, result |-> "none" ]

NoRmm ==
  [ pc |-> "idle", older_than |-> 0, found |-> EmptyStore,
    next_marker |-> None, prefixes |-> << >>, response_marker |-> None, visited |-> << >>,
    removed |-> << >>, removed_count |-> 0, result |-> "none" ]

NoOut == [ op |-> "none", arg |-> None, result |-> "none", value |-> None ]

\* Replicator.db_name before register_db: detect_db runs ahead of it.
Unregistered == << >>

NoClock == [ last |-> None, before |-> None ]

CmdInit == rm = NoRm /\ rmm = NoRmm /\ out = NoOut /\ clock = NoClock

\* No command of bottomless-cli is running: each runs in a process of its
\* own, one at a time.
CliFresh ==
  ls.pc = "idle" /\ rm.pc = "idle" /\ rmm.pc = "idle" /\ out.op = "none"

\* The remove call on generation begins in the bucket s.
StartRemove(generation, caller, s) ==
  [ NoRm EXCEPT !.pc = "list", !.generation = generation,
                !.caller = caller, !.found = s ]

\* remove(generation, verbose) is called from the command line.
remove(generation) ==
  /\ CliFresh
  /\ rm' = StartRemove(generation, "cli", store)
  /\ UNCHANGED << session_vars, ls, rmm, out, clock >>

\* Mutant: a listing without objects does not end the loop.
RemoveNoObjects_ListsAgain(r) == [r EXCEPT !.pc = "list"]

\* Mutant: a generation without objects is an error.
RemoveNoObjects_NotFound(r) == [r EXCEPT !.pc = "done", !.result = "NotFound"]

\* response.contents() is None: "No objects found", return Ok(()).
RemoveNoObjects(r) == [r EXCEPT !.pc = "done", !.result = "Ok"]

\* Mutant: remove lists the objects of the whole database.
RemoveList_WholeDatabase ==
  /\ rm.pc = "list"
  /\ \E response \in { ListObjects(store, db_name, None, rm.next_marker) } :
       LET objs == Contents(response)
       IN  IF objs = None
           THEN rm' = RemoveNoObjects(rm)
           ELSE \E marker \in NextMarker(response, None) :
                  rm' = [rm EXCEPT !.pc = "delete", !.objs = Unwrap(objs),
                                   !.response_marker = marker]
  /\ UNCHANGED << session_vars, ls, rmm, out, clock >>

\* One turn of remove's loop, up to its deletes: a list_objects call under
\* the prefix of the generation with the marker of the turn before.
RemoveList ==
  /\ rm.pc = "list"
  /\ \E response \in { ListObjects(store, GenPrefix(rm.generation), None,
                                    rm.next_marker) } :
       LET objs == Contents(response)
       IN  IF objs = None
           THEN rm' = RemoveNoObjects(rm)
           ELSE \E marker \in NextMarker(response, None) :
                  rm' = [rm EXCEPT !.pc = "delete", !.objs = Unwrap(objs),
                                   !.response_marker = marker]
  /\ UNCHANGED << session_vars, ls, rmm, out, clock >>

\* Mutant: delete_object waits while a commit is uploading.
RemoveDelete_Waits ==
  /\ pc # "commit"
  /\ rm.pc = "delete"
  /\ store' = DeleteObject(store, rm.objs[1])
  /\ LET r == [rm EXCEPT !.objs = Tail(@), !.deleted = @ \o << rm.objs[1] >>]
     IN  rm' = IF r.objs # << >> THEN r
               ELSE IF rm.response_marker = None
               THEN [r EXCEPT !.pc = "done", !.result = "Ok"]
               ELSE [r EXCEPT !.pc = "list", !.next_marker = rm.response_marker]
  /\ UNCHANGED << replicator_vars, ls, rmm, out, clock >>

\* remove's loop over the objects of a response: delete_object of the
\* next key; after the last one the loop ends when the response had no
\* next_marker, and lists again with it otherwise.
RemoveDelete ==
  /\ rm.pc = "delete"
  /\ store' = DeleteObject(store, rm.objs[1])
  /\ LET r == [rm EXCEPT !.objs = Tail(@), !.deleted = @ \o << rm.objs[1] >>]
     IN  rm' = IF r.objs # << >> THEN r
               ELSE IF rm.response_marker = None
               THEN [r EXCEPT !.pc = "done", !.result = "Ok"]
               ELSE [r EXCEPT !.pc = "list", !.next_marker = rm.response_marker]
  /\ UNCHANGED << replicator_vars, ls, rmm, out, clock >>

\* list_objects or delete_object fails: `.await?` returns the error.
RemoveFails ==
  /\ rm.pc \in { "list", "delete" }
  /\ rm' = [rm EXCEPT !.pc = "done", !.result = "Transport"]
  /\ UNCHANGED << session_vars, ls, rmm, out, clock >>

\* remove_many(older_than, verbose) is called from the command line.
remove_many(older_than) ==
  /\ CliFresh
  /\ rmm' = [NoRmm EXCEPT !.pc = "list", !.older_than = older_than,
                          !.found = store]
  /\ UNCHANGED << session_vars, ls, rm, out, clock >>

\* remove_many after a prefix: the next prefix of the response; after the
\* last one the loop ends when the response had no next_marker, and lists
\* again with it otherwise.
RemoveManyGoesOn(r) ==
  IF r.prefixes # << >> THEN [r EXCEPT !.pc = "prefixes"]
  ELSE IF r.response_marker = None THEN [r EXCEPT !.pc = "done", !.result = "Ok"]
  ELSE [r EXCEPT !.pc = "list", !.next_marker = r.response_marker]

\* One turn of remove_many's loop, up to its prefixes: a list_objects call
\* with the delimiter "/" and the marker of the turn before.
RemoveManyList ==
  /\ rmm.pc = "list"
  /\ \E response \in { ListObjects(store, db_name, Some("/"),
                                    rmm.next_marker) } :
       LET prefixes == CommonPrefixes(response)
       IN  IF prefixes = None
           THEN rmm' = [rmm EXCEPT !.pc = "done", !.result = "Ok"]
           ELSE \E marker \in NextMarker(response, Some("/")) :
                  rmm' = [rmm EXCEPT !.pc = "prefixes",
                                    !.prefixes = Unwrap(prefixes),
                                    !.response_marker = marker]
  /\ UNCHANGED << session_vars, ls, rm, out, clock >>

\* remove_many's loop over the prefixes of a response: the prefix is cut,
\* parsed and dated; a generation dated on or after older_than is passed
\* over, and remove is called for any other.
RemoveManyPrefix ==
  /\ rmm.pc = "prefixes"
  /\ LET prefix == rmm.prefixes[1]
         seen   == [rmm EXCEPT !.prefixes = Tail(@), !.visited = @ \o << prefix >>]
         from   == Len(db_name) + 1
         to     == Len(prefix) - 1
         uuid   == IF from <= to THEN TryParseUuid(Slice(prefix, from, to))
                   ELSE None
     IN  IF from > to
         THEN rmm' = [seen EXCEPT !.pc = "done", !.result = "panic"] /\ UNCHANGED rm
         ELSE IF uuid = None
         THEN rmm' = [seen EXCEPT !.pc = "done", !.result = "Malformed"] /\ UNCHANGED rm
         ELSE \E dt \in uuid_to_datetime(Unwrap(uuid)) :
                IF dt.panic
                THEN rmm' = [seen EXCEPT !.pc = "done", !.result = "panic"] /\ UNCHANGED rm
                ELSE IF dt.day >= rmm.older_than
                THEN rmm' = RemoveManyGoesOn(seen) /\ UNCHANGED rm
                ELSE /\ rmm' = [seen EXCEPT !.pc = "removing"]
                     /\ rm' = StartRemove(Slice(prefix, from, to), "remove_many", store)
  /\ UNCHANGED << session_vars, ls, out, clock >>

\* self.remove(uuid, verbose).await? has returned: its error is
\* remove_many's, and after Ok the generation is counted.
RemoveManyResumes ==
  /\ rmm.pc = "removing"
  /\ rm.pc = "done"
  /\ rmm' = IF rm.result = "Ok"
            THEN RemoveManyGoesOn([rmm EXCEPT !.removed_count = @ + 1,
                                             !.removed = @ \o << rm.generation >>])
            ELSE [rmm EXCEPT !.pc = "done", !.result = rm.result]
  /\ UNCHANGED << session_vars, ls, rm, out, clock >>

\* list_objects fails in remove_many: `.await?` returns the error.
RemoveManyFails ==
  /\ rmm.pc = "list"
  /\ rmm' = [rmm EXCEPT !.pc = "done", !.result = "Transport"]
  /\ UNCHANGED << session_vars, ls, rm, out, clock >>

\* Mutant: the generation is reported without a look at the listing.
GenerationFound_Always(response) == TRUE

\* .contents().ok_or_else(..)?: the listing holds an object.
GenerationFound(response) == Contents(response) # None

\* list_generation(generation): a list_objects call under the prefix of the
\* generation with max_keys(1); without an object it fails with "Generation
\* .. not found", and otherwise it fetches and prints the details of the
\* generation, unless a call to the store fails.
list_generation(generation) ==
  /\ CliFresh
  /\ LET response ==
           ListObjectsUpTo(store, GenPrefix(generation), None, None, 1)
         Returns(result, value) ==
           out' = [ op |-> "list_generation", arg |-> Some(generation),
                    result |-> result, value |-> value ]
     IN  \/ Returns("Transport", None)
         \/ IF GenerationFound(response)
            THEN Returns("Ok", Some(generation))
            ELSE Returns("NotFound", None)
  /\ UNCHANGED << session_vars, ls, rm, rmm, clock >>

\* usize::saturating_sub
SaturatingSub(a, b) == IF a >= b THEN a - b ELSE 0

\* str::chars().nth(n), n counted from 0
Nth(text, n) == IF n < Len(text) THEN Some(text[n + 1]) ELSE None

\* detect_db's look at the first prefix: the name before the last 38
\* characters when the first of them is '-'.
DetectName(prefix) ==
  LET at == SaturatingSub(Len(prefix), GenSuffixLen)
  IN  IF Nth(prefix, at) = Some("-") THEN Some(Slice(prefix, 0, at)) ELSE None

\* detect_db: the first common prefix of a listing with the delimiter "/"
\* under db_name, which is empty as long as no database is registered.
detect_db ==
  /\ CliFresh
  /\ LET response == ListObjects(store, Unregistered, Some("/"), None)
         prefixes == CommonPrefixes(response)
         Returns(arg, result, value) ==
           out' = [ op |-> "detect_db", arg |-> arg, result |-> result,
                    value |-> value ]
     IN  \/ Returns(None, "Transport", None)
         \/ IF prefixes = None THEN Returns(None, "Ok", None)
            ELSE Returns(Some(Unwrap(prefixes)[1]), "Ok",
                         DetectName(Unwrap(prefixes)[1]))
  /\ UNCHANGED << session_vars, ls, rm, rmm, clock >>

\* The process of the command ends.
CliExits ==
  /\ \/ ls.pc = "done"
     \/ rm.pc = "done" /\ rm.caller = "cli"
     \/ rmm.pc = "done"
     \/ out.op # "none"
  /\ ls' = NoLs
  /\ rm' = NoRm
  /\ rmm' = NoRmm
  /\ out' = NoOut
  /\ UNCHANGED << session_vars, clock >>

\* ------------------------------------- a live session and bottomless-cli
\*
\* The replicator of the sources keeps its pages under <db_name>-<page>;
\* the one bottomless-cli is built on keeps them under the generation of
\* the session, as the specification names the objects:
\* <db_name>-<generation>/<page_no zero-padded to 12 digits>.

\* Replicator.generation of the live session.
SessionGeneration == Gen_2023_06_01

\* The key of a page of the session.
GenPageKey(page_no) == GenKey(SessionGeneration, ZeroPad(page_no, KeyWidth))

\* commit's loop uploads a page under the generation of the session.
CommitPutGen ==
  /\ pc = "commit"
  /\ idx <= Len(write_buffer)
  /\ PageFits(write_buffer[idx].data)
  /\ LET e == write_buffer[idx]
     IN  /\ store' = PutObject(store, GenPageKey(e.offset), e.data)
         /\ commit_call' =
              [commit_call EXCEPT
                 !.uploaded = @ \o << [offset |-> e.offset,
                                       key |-> GenPageKey(e.offset)] >>]
  /\ idx' = idx + 1
  /\ UNCHANGED << write_buffer, pc, xframes_ret, written, txn, first_store,
                  boot_result, ls, cmd_vars >>

\* The pages the session writes while its generation is removed.
RaceHdrs ==
  UNION { [1..n -> [pgno : { 1, 2 }, img : { "A" }]] : n \in HdrCounts }

\* ------------------------------------------------------ specifications

SessionInit ==
  /\ write_buffer = << >>
  /\ pc = "idle"
  /\ idx = 1
  /\ commit_call = NoCommit
  /\ xframes_ret = NoCall
  /\ written = EmptyStore
  /\ first_store = None
  /\ boot_result = None
  /\ txn = {}

vars == << session_vars, ls, cmd_vars >>

\* A session on an empty bucket.
Init == SessionInit /\ store = EmptyStore /\ ls = NoLs /\ CmdInit

Next ==
  \/ \E page_size \in PageSizes, hdrs \in Hdrs, is_commit \in {0, 1} :
       xFrames(page_size, hdrs, is_commit)
  \/ CommitSizeMismatch
  \/ CommitPut
  \/ CommitPutFails
  \/ CommitOk
  \/ boot
  \/ HostResumes

Spec == Init /\ [][Next]_vars

\* A session whose host rolls transactions back as well.
TxnNext == Next \/ xUndo

SpecTxn == Init /\ [][TxnNext]_vars

\* Generations minted one after another, at any times.
ClockNext == \E t \in CreationTimes : mint(t)

SpecClock == Init /\ [][ClockNext]_vars

\* A live session, and bottomless-cli removing the generation of the
\* session: the steps of the two interleave.
RaceNext ==
  \/ \E hdrs \in RaceHdrs, is_commit \in {0, 1} :
       xFrames(PAGE_SIZE, hdrs, is_commit)
  \/ CommitPutGen
  \/ CommitPutFails
  \/ CommitOk
  \/ HostResumes
  \/ remove(SessionGeneration)
  \/ RemoveList
  \/ RemoveDelete
  \/ RemoveFails
  \/ CliExits

SpecRace == Init /\ [][RaceNext]_vars

\* bottomless-cli and boot on a bucket that holds generations.
CliInit ==
  /\ SessionInit
  /\ store \in { GenStore(gens) : gens \in SUBSET Generations }
  /\ ls = NoLs
  /\ CmdInit

CliNext ==
  \/ \E limit \in Limits, older_than, newer_than \in { None } \cup { Some(d) : d \in FilterDates } :
       list_generations(limit, older_than, newer_than)
  \/ ListGenerationsPage
  \/ ListGenerationsFails
  \/ boot
  \/ HostResumes

SpecCli == CliInit /\ [][CliNext]_vars

\* The commands of bottomless-cli, one at a time, on a bucket that holds
\* generations of the database and may hold other objects.
CatalogInit ==
  /\ SessionInit
  /\ store \in { WithKeys(GenStore(gens), stray) :
                   gens \in SUBSET Generations, stray \in StrayKeys }
  /\ ls = NoLs
  /\ CmdInit

CatalogNext ==
  \/ \E generation \in Generations : remove(generation)
  \/ RemoveList
  \/ RemoveDelete
  \/ RemoveFails
  \/ \E older_than \in FilterDates : remove_many(older_than)
  \/ RemoveManyList
  \/ RemoveManyPrefix
  \/ RemoveManyResumes
  \/ RemoveManyFails
  \/ CliFresh /\ list_generations(None, None, None)
  \/ ListGenerationsPage
  \/ ListGenerationsFails
  \/ \E generation \in Generations : list_generation(generation)
  \/ detect_db
  \/ CliFresh /\ boot
  \/ HostResumes
  \/ CliExits

SpecCatalog == CatalogInit /\ [][CatalogNext]_vars

\* The next turn of the loop of the command that is running: one command
\* runs at a time, and remove_many waits for the remove it called.
LoopTurn ==
  \/ ListGenerationsPage
  \/ RemoveList
  \/ RemoveDelete
  \/ RemoveManyList
  \/ RemoveManyPrefix
  \/ RemoveManyResumes

\* The enumerations of bottomless-cli, one command at a time, on buckets
\* that hold generations of the database.
EnumerateInit ==
  /\ SessionInit
  /\ store \in { GenStore(gens) : gens \in SUBSET Generations }
  /\ ls = NoLs
  /\ CmdInit

EnumerateNext ==
  \/ \E generation \in Generations : remove(generation)
  \/ RemoveList
  \/ RemoveDelete
  \/ RemoveFails
  \/ \E older_than \in FilterDates : remove_many(older_than)
  \/ RemoveManyList
  \/ RemoveManyPrefix
  \/ RemoveManyResumes
  \/ RemoveManyFails
  \/ CliFresh /\ list_generations(None, None, None)
  \/ ListGenerationsPage
  \/ ListGenerationsFails
  \/ CliExits

\* A command that is running goes on running: the next turn of its loop is
\* taken, unless a call to the store fails first.
SpecEnumerate == EnumerateInit /\ [][EnumerateNext]_vars /\ WF_vars(LoopTurn)

\* ------------------------------------------------------------ the claims

Entries(buf) == { buf[i] : i \in 1..Len(buf) }

Offsets(buf) == [ i \in 1..Len(buf) |-> buf[i].offset ]

CommitFailed == commit_call.result \in { "SizeMismatch", "Transport" }

\* One commit call on buf in which every upload succeeds, from bucket s.
RECURSIVE CommitAtOnce(_, _)
CommitAtOnce(s, buf) ==
  IF buf = << >> THEN s
  ELSE CommitAtOnce(PutObject(s, Key(buf[1].offset), buf[1].data), Tail(buf))

\* C1: a commit call that returns an error leaves the buffer with exactly
\* the entries it held when the call began; a commit call that returns Ok
\* leaves it empty.
C1_BufferClearedOnlyOnOk ==
  /\ CommitFailed =>
       /\ Entries(write_buffer) = Entries(commit_call.buf)
       /\ Len(write_buffer) = Len(commit_call.buf)
  /\ commit_call.result = "Ok" => write_buffer = << >>

\* A commit failed on a transport error after it had uploaded a page.
C1_Witness ==
  /\ commit_call.result = "Transport"
  /\ Len(commit_call.uploaded) >= 1
  /\ Len(write_buffer) >= 2

\* C2: pages written and then committed with Ok into an empty bucket come
\* back from boot: one (page number, image) entry per written page, with
\* the page number given to write and the last image written.
C2_RoundTrip ==
  ( /\ boot_result # None
    /\ Unwrap(boot_result).ok
    /\ commit_call.result = "Ok"
    /\ commit_call.store = EmptyStore )
  => LET pages == Unwrap(boot_result).pages
     IN  /\ { pages[i] : i \in 1..Len(pages) }
              = { << e.offset, e.data >> : e \in Entries(commit_call.buf) }
         /\ Len(pages) = Len(commit_call.buf)

\* C3: two buffered entries with different page numbers are never
\* uploaded under the same key by one commit call.
C3_DistinctKeys ==
  \A i, j \in 1..Len(commit_call.uploaded) :
    commit_call.uploaded[i].offset # commit_call.uploaded[j].offset
      => commit_call.uploaded[i].key # commit_call.uploaded[j].key

\* C4: when a commit call returns Ok, after any number of failed calls on
\* the same buffer, the bucket is what one commit call without a failure
\* would have made of the bucket the first call found; a commit call on
\* the empty buffer a successful commit leaves changes nothing.
C4_IdempotentRetry ==
  commit_call.result = "Ok" =>
    /\ store = CommitAtOnce(Unwrap(first_store), commit_call.buf)
    /\ commit_call.buf = << >> => store = commit_call.store

\* A commit returned Ok after an earlier call on the same buffer had
\* uploaded a part of it and failed.
C4_Witness ==
  /\ commit_call.result = "Ok"
  /\ Len(commit_call.buf) >= 2
  /\ Unwrap(first_store) # commit_call.store

\* C5: a committing xFrames call reaches the underlying xFrames only after
\* commit returned Ok, every buffered page being in the bucket; when
\* commit fails the call returns SQLITE_IOERR_WRITE and the underlying
\* xFrames is not invoked.
C5_ForwardOnlyAfterOk ==
  /\ (xframes_ret.is_commit # 0 /\ xframes_ret.orig_called) =>
       /\ commit_call.result = "Ok"
       /\ Offsets(commit_call.uploaded) = Offsets(commit_call.buf)
  /\ CommitFailed =>
       /\ xframes_ret.rc = "SQLITE_IOERR_WRITE"
       /\ ~xframes_ret.orig_called
  /\ pc = "commit" => ~xframes_ret.orig_called

\* A committing xFrames call returned SQLITE_IOERR_WRITE for a failed
\* commit.
C5_Witness ==
  /\ xframes_ret.is_commit # 0
  /\ CommitFailed
  /\ xframes_ret.rc = "SQLITE_IOERR_WRITE"

\* The positions of the commit call's buffer whose page is not PAGE_SIZE.
BadAt == { i \in 1..Len(commit_call.buf) : commit_call.buf[i].data.len # PAGE_SIZE }

FirstBad == CHOOSE i \in BadAt : \A j \in BadAt : i <= j

BadNeverUploaded ==
  \A i \in BadAt : \A u \in 1..Len(commit_call.uploaded) :
    commit_call.uploaded[u].offset # commit_call.buf[i].offset

\* C7 as claimed: a commit call whose buffer holds a page that is not
\* PAGE_SIZE long returns the size-mismatch error, and no such page is
\* uploaded.
C7_AlwaysSizeMismatch ==
  (commit_call.result \notin { "none", "running" } /\ BadAt # {}) =>
    /\ commit_call.result = "SizeMismatch"
    /\ BadNeverUploaded

\* C7 amended: a commit call whose buffer holds a page that is not
\* PAGE_SIZE long never returns Ok and never uploads such a page; it
\* returns the size-mismatch error at the first such page of the iteration
\* order, unless the upload of a page before it failed, and then it
\* returns that transport error.
C7_NeverOkNeverUploaded ==
  (commit_call.result # "none" /\ BadAt # {}) =>
    /\ BadNeverUploaded
    /\ commit_call.result \in { "running", "SizeMismatch", "Transport" }
    /\ commit_call.result = "SizeMismatch" => commit_call.stopped_at = FirstBad
    /\ commit_call.result = "Transport" => commit_call.stopped_at < FirstBad

\* A commit failed on a size mismatch after it had uploaded a page.
C7_Witness ==
  /\ commit_call.result = "SizeMismatch"
  /\ Len(commit_call.uploaded) >= 1

\* C8: a commit call that fails on an upload has uploaded exactly the
\* pages before the failing one in iteration order, the bucket holding
\* those on top of what it held, and nothing is uploaded after the error.
C8_FailedUploadStopsCommit ==
  commit_call.result = "Transport" =>
    LET n == commit_call.stopped_at - 1
    IN  /\ pc # "commit"
        /\ Offsets(commit_call.uploaded) = Offsets(SubSeq(commit_call.buf, 1, n))
        /\ store = CommitAtOnce(commit_call.store, SubSeq(commit_call.buf, 1, n))

\* An upload failed with a page uploaded before it.
C8_Witness ==
  /\ commit_call.result = "Transport"
  /\ commit_call.stopped_at >= 2

\* The buffer holds one image per page written, the last one written.
BufferIsLastWritten ==
  /\ { write_buffer[i].offset : i \in 1..Len(write_buffer) } = DOMAIN written
  /\ \A i, j \in 1..Len(write_buffer) :
       write_buffer[i].offset = write_buffer[j].offset => i = j
  /\ \A i \in 1..Len(write_buffer) :
       write_buffer[i].data = written[write_buffer[i].offset]

\* C9: the buffer holds exactly one image per page number written since
\* the last commit that returned Ok, the one of the most recent write;
\* and the step that buffers pages leaves the bucket as it is.
C9_LastWriteWins ==
  /\ []BufferIsLastWritten
  /\ [][pc = "idle" => store' = store]_vars

\* A page was written over an image the buffer already held.
C9_Witness ==
  /\ xframes_ret.overwrote
  /\ Len(write_buffer) >= 2

\* The generations that hold an object in bucket s.
GensIn(s) == { g \in Generations : GenObjects(g) \cap DOMAIN s # {} }

\* decode(id).date(), in days since 1970-01-01.
DateOf(generation) ==
  (CHOOSE dt \in uuid_to_datetime(Unwrap(TryParseUuid(generation))) :
     ~dt.panic).day

\* Whether a call of list_generations ran to Ok with no limit given.
LsRanUnlimited == ls.result = "Ok" /\ ls.limit_arg = None

\* C6 as claimed: an enumeration visits every entry of the bucket once,
\* however many responses the listing takes: boot every object, and
\* list_generations every generation prefix.
C6_EveryEntryVisited ==
  /\ (boot_result # None /\ Unwrap(boot_result).ok) =>
       Unwrap(boot_result).visited = SortStrs(DOMAIN store)
  /\ LsRanUnlimited =>
       ls.visited = SortStrs({ GenPrefix(g) : g \in GensIn(store) })

\* C10: with no limit, list_generations prints exactly the generations
\* of the bucket whose date is on or after newer_than and on or before
\* older_than, a bound that is not given leaving that side open.
C10_FilterCorrect ==
  LsRanUnlimited =>
    LET Passes(g) ==
          /\ ls.newer_than = None \/ Unwrap(ls.newer_than) <= DateOf(g)
          /\ ls.older_than = None \/ DateOf(g) <= Unwrap(ls.older_than)
    IN  ls.emitted = SelectSeq(SortStrs(GensIn(store)), Passes)

\* Of the generations dated 2023-01-01, 2023-06-01 and 2023-12-01, the
\* call with older_than 2023-07-01 and newer_than 2023-02-01 printed the
\* second.
C10_Witness ==
  /\ LsRanUnlimited
  /\ GensIn(store) = Generations
  /\ ls.older_than = Some(19539)
  /\ ls.newer_than = Some(19389)
  /\ ls.emitted = << Gen_2023_06_01 >>
  /\ { DateOf(g) : g \in Generations } = { 19358, 19509, 19692 }

\* The generations of the bucket that pass the date filters of the call,
\* in the order of the listing.
LsPassing ==
  LET Passes(g) ==
        /\ ls.newer_than = None \/ Unwrap(ls.newer_than) <= DateOf(g)
        /\ ls.older_than = None \/ DateOf(g) <= Unwrap(ls.older_than)
  IN  SelectSeq(SortStrs(GensIn(store)), Passes)

\* C11 as claimed: list_generations with limit n, when its listings do not
\* fail, returns Ok having printed the first min(n, number of generations
\* that pass the date filters) of the passing generations, for every
\* n >= 0; generations the filters reject do not count.
C11_LimitStops ==
  (ls.pc = "done" /\ ls.limit_arg # None /\ ls.result # "Transport") =>
    /\ ls.result = "Ok"
    /\ ls.emitted =
         SubSeq(LsPassing, 1, Min(Unwrap(ls.limit_arg), Len(LsPassing)))

\* The keys of bucket s under the prefix of generation.
KeysOf(s, generation) ==
  { k \in DOMAIN s : StartsWith(k, GenPrefix(generation)) }

\* C13 as claimed: after remove(id) returned Ok no object under
\* <db_name>-<id>/ is left in the bucket, however many listings the
\* generation takes.
C13_RemoveLeavesNothing ==
  (rm.pc = "done" /\ rm.result = "Ok") => KeysOf(store, rm.generation) = {}

\* The objects of generation are in bucket s what they are in bucket t.
SameObjects(s, t, generation) ==
  /\ KeysOf(s, generation) = KeysOf(t, generation)
  /\ \A k \in KeysOf(s, generation) : s[k] = t[k]

\* C12 as claimed: after remove_many(older_than) returned Ok, every
\* generation the bucket held dated before older_than has no object left,
\* every other generation has all of its objects, and the count is the
\* number of the generations dated before older_than.
C12_RemoveManyExact ==
  (rmm.pc = "done" /\ rmm.result = "Ok") =>
    LET old == { g \in GensIn(rmm.found) : DateOf(g) < rmm.older_than }
    IN  /\ \A g \in old : KeysOf(store, g) = {}
        /\ \A g \in Generations \ old : SameObjects(store, rmm.found, g)
        /\ rmm.removed_count = Cardinality(old)

\* C19: remove on a generation that has no object deletes nothing and
\* leaves the bucket as it found it, and unless its list_objects call
\* fails it returns Ok.
C19_RemoveEmptyIsNoOp ==
  (rm.pc # "idle" /\ KeysOf(rm.found, rm.generation) = {}) =>
    /\ rm.deleted = << >>
    /\ rm.pc # "delete"
    /\ store = rm.found
    /\ rm.pc = "done" => rm.result \in { "Ok", "Transport" }

\* remove returned Ok for a generation without objects, in a bucket that
\* holds another generation.
C19_Witness ==
  /\ rm.pc = "done"
  /\ rm.caller = "cli"
  /\ rm.result = "Ok"
  /\ KeysOf(rm.found, rm.generation) = {}
  /\ rm.found # EmptyStore
  /\ store = rm.found

\* Whether list_generations and remove_many fail to decode a prefix.
Undecodable(prefix) ==
  LET from == Len(db_name) + 1
      to   == Len(prefix) - 1
  IN  from > to \/ TryParseUuid(Slice(prefix, from, to)) = None

\* The enumeration that visited the prefixes stopped at the first one it
\* could not decode, and did not return Ok.
AbortsOnUndecodable(call) ==
  \A i \in 1..Len(call.visited) :
    Undecodable(call.visited[i]) =>
      i = Len(call.visited) /\ call.pc = "done" /\ call.result # "Ok"

\* C14 as claimed: a listed key that does not decode into a generation, or
\* a page number, ends the enumeration with an error: list_generations,
\* remove_many and boot visit no entry after it and do not return Ok.
C14_MalformedKeyAborts ==
  /\ AbortsOnUndecodable(ls)
  /\ AbortsOnUndecodable(rmm)
  /\ (boot_result # None /\ Unwrap(boot_result).ok) =>
       \A i \in 1..Len(Unwrap(boot_result).visited) :
         BootPgno(Unwrap(boot_result).visited[i]) # None

\* C17 as claimed: for a first listed prefix <name>-<36 characters>/
\* detect_db returns <name>, and it returns none for every prefix whose
\* character before the 36 is not '-', the prefixes shorter than the
\* suffix among them.
C17_DetectDb ==
  (out.op = "detect_db" /\ out.result = "Ok" /\ out.arg # None) =>
    LET prefix == Unwrap(out.arg)
        n      == Len(prefix) - GenSuffixLen
    IN  IF n >= 0 /\ prefix[n + 1] = "-"
        THEN out.value = Some(SubSeq(prefix, 1, n))
        ELSE out.value = None

\* C18: list_generation(id) reports no details when no object is under
\* <db_name>-<id>/, failing with the not-found error unless a call to the
\* store failed; it reports the details of that generation, and of no
\* other, only when an object is under the prefix.
C18_ListGeneration ==
  out.op = "list_generation" =>
    LET generation == Unwrap(out.arg)
    IN  /\ KeysOf(store, generation) = {} =>
             out.value = None /\ out.result \in { "NotFound", "Transport" }
        /\ out.result = "NotFound" => KeysOf(store, generation) = {}
        /\ out.value # None =>
             /\ KeysOf(store, generation) # {}
             /\ out.value = Some(generation)
             /\ out.result = "Ok"

\* list_generation failed with not-found in a bucket that holds another
\* generation.
C18_Witness ==
  /\ out.op = "list_generation"
  /\ out.result = "NotFound"
  /\ GensIn(store) # {}

\* C20 as claimed: the pages a commit that returned Ok has uploaded are
\* the pages written by the xFrames calls of the transaction it commits:
\* no page of a transaction that was rolled back, or given up after a
\* failed commit, is among them.
C20_BufferScopedToTransaction ==
  commit_call.result = "Ok" =>
    { commit_call.uploaded[i].offset : i \in 1..Len(commit_call.uploaded) } = txn

\* a < b as creation times.
TimeLess(a, b) ==
  \/ a.day < b.day
  \/ a.day = b.day /\ a.sod < b.sod
  \/ a.day = b.day /\ a.sod = b.sod /\ a.nanos < b.nanos

\* The whole milliseconds from a to b, rounded down.
MillisBetween(a, b) ==
  (b.day - a.day) * MillisPerDay + (b.sod - a.sod) * 1000
    + (b.nanos - a.nanos) \div NanosPerMilli

\* The encoded time of a minted generation: the first 48 bits of its id.
EncodedTime(minted) == Millis(Unwrap(minted.id), 12)

\* a < b as encoded times.
EncodedLess(a, b) == a.day < b.day \/ (a.day = b.day /\ a.ms < b.ms)

C21_StoreNeverAhead ==
  (pc = "returned" /\ xframes_ret.is_commit # 0
     /\ xframes_ret.rc # "SQLITE_OK") =>
    store = commit_call.store

\* C23 as claimed: boot returns pages of its own database only: each
\* visited object it takes a page from is under a key that starts with
\* <db_name>-.
C23_BootOwnDatabaseOnly ==
  (boot_result # None /\ Unwrap(boot_result).ok) =>
    \A i \in 1..Len(Unwrap(boot_result).visited) :
      LET key == Unwrap(boot_result).visited[i]
      IN  BootPgno(key) # None => StartsWith(key, db_name \o << "-" >>)

\* C25: remove(id) deletes objects of the generation id only: during the
\* call and after it, whether it returned Ok or an error, every object the
\* call found under a key that does not start with <db_name>-<id>/ is in
\* the bucket, and the bucket holds nothing but objects the call found,
\* each unchanged.
C25_RemoveFrame ==
  rm.pc # "idle" =>
    /\ DOMAIN store \subseteq DOMAIN rm.found
    /\ \A k \in DOMAIN store : store[k] = rm.found[k]
    /\ \A k \in DOMAIN rm.found :
         ~StartsWith(k, GenPrefix(rm.generation)) => k \in DOMAIN store

\* remove failed part-way: it has deleted an object of the generation,
\* another one is left, and the bucket holds objects of other generations
\* and of another database.
C25_Witness ==
  /\ rm.pc = "done"
  /\ rm.result = "Transport"
  /\ rm.deleted # << >>
  /\ KeysOf(store, rm.generation) # {}
  /\ \E k \in DOMAIN store : ~StartsWith(k, db_name)
  /\ \E k \in DOMAIN store :
       StartsWith(k, db_name) /\ ~StartsWith(k, GenPrefix(rm.generation))

\* A call of list_generations, remove or remove_many is in its loop.
InLoop ==
  \/ ls.pc = "listing"
  \/ rm.pc \in { "list", "delete" }
  \/ rmm.pc \in { "list", "prefixes", "removing" }

\* C24: every enumeration loop terminates: with no other writer, a call of
\* list_generations, of remove and of remove_many that has begun
\* eventually returns, remove also when it lists again with the marker of
\* a page whose objects it has deleted.
C24_EnumerationsTerminate == InLoop ~> ~InLoop

\* remove has returned Ok after a second list call, made with the marker
\* of a page whose objects it had deleted.
C24_Witness ==
  /\ rm.pc = "done"
  /\ rm.result = "Ok"
  /\ rm.next_marker # None
  /\ rm.deleted # << >>

C22_BothReturnedOk ==
  /\ rm.pc = "done"
  /\ rm.result = "Ok"
  /\ KeysOf(store, rm.generation) \ DOMAIN rm.found # {}
  /\ commit_call.result = "Ok"
  /\ \E i \in 1..Len(commit_call.uploaded) :
       commit_call.uploaded[i].key \notin DOMAIN store

=============================================================================
